---- MODULE Spec2Model ----
(***************************************************************************)
(* WhatsApp Baileys server with duplicate protection (src/index.js).       *)
(*                                                                         *)
(* The model covers the connection lifecycle (startWhatsApp and the        *)
(* "connection.update" handler), the dedup cache (isDuplicateMessage,      *)
(* cleanupOldEntries, DELETE /clear-duplicates) and the send gateway       *)
(* (POST /send, sendWithRetry).  JavaScript runs each callback to its next *)
(* await without interruption, so every action below is one such run.      *)
(* Time is the value of Date.now() in milliseconds.  Strings are sequences *)
(* of tokens (one-character strings and the domain "s.whatsapp.net").      *)
(***************************************************************************)
EXTENDS Integers, Sequences, FiniteSets, TLC

\* ---------------------------------------------------------------- constants
RETRY_DELAY == 5000
MAX_RETRIES == 10
DUPLICATE_BLOCK_TIME == 15000
CLEANUP_INTERVAL == 30000
MAX_SEND_ATTEMPTS == 3
MAX_SEND_ERROR_RETRIES == 2

\* ------------------------------------------------------------------- bounds
StartTime == 5000        \* Date.now() when the server starts listening
TickStep == 5000         \* granularity of the clock
MaxTime == 35000         \* the clock stops here in Spec
MaxConnTime == 60000     \* the clock stops here in SpecConn
MaxCalls == 2            \* POST /send requests in one run
MaxClears == 1           \* DELETE /clear-duplicates requests in one run
MaxTimers == 2           \* pending setTimeout(startWhatsApp) timers
MaxStarting == 1         \* startWhatsApp calls suspended at an await
MaxSessions == 2         \* sockets whose event handlers are still subscribed
MaxExitTime == 15000     \* the clock stops here in SpecExit
MaxExitCalls == 1        \* POST /send requests in one run of SpecExit
MaxRequestTime == 15000  \* the clock stops here in SpecRequests
MaxLiveTime == 20000     \* the clock stops here in SpecLive when no send waits
MaxLiveCalls == 1        \* POST /send requests in one run of SpecLive

VARIABLES
  sock,            \* "undefined" or "handle": the module variable sock
  isConnected,     \* the readiness flag
  retryCount,      \* reconnect attempts since the last open / QR
  startTimers,     \* deadlines of the pending setTimeout(startWhatsApp)
  starting,        \* startWhatsApp calls that have not reached makeWASocket
  sessions,        \* sockets that can still emit connection.update
  lastCloseCode,   \* the statusCode of the last close event ("none": no close yet)
  exhaustedLogged, \* "Max reconnection attempts reached" has been printed
  sockEnded,       \* sock.end() has been called
  exitCode,        \* -1 while the process runs, else the code of process.exit()
  attemptsSinceOpen,   \* history: startWhatsApp() timers set since the last open event
  attemptsSinceReset,  \* history: startWhatsApp() timers set since the last open or QR event
  recentMessages,  \* the dedup cache: key -> timestamp
  now,             \* Date.now()
  cleanupAt,       \* next firing of setInterval(cleanupOldEntries)
  calls,           \* the POST /send requests and their sendWithRetry state
  clears,          \* number of DELETE /clear-duplicates requests served
  clearResp,       \* previous_entries of the last DELETE /clear-duplicates
  lastCheck,       \* history: time of the last dedup check per key since the last clear
  lastAllowed      \* history: time of the last non-suppressed check per key since the last clear

procVars == <<sockEnded, exitCode>>
attemptVars == <<attemptsSinceOpen, attemptsSinceReset>>
connVars == <<sock, isConnected, retryCount, startTimers, starting, sessions,
              lastCloseCode, exhaustedLogged, procVars, attemptVars>>
cacheVars == <<recentMessages, cleanupAt, clears, clearResp>>
sendVars == <<calls>>
histVars == <<lastCheck, lastAllowed>>
vars == <<connVars, cacheVars, sendVars, histVars, now>>

\* ------------------------------------------------------------------ strings
WA_DOMAIN == "s.whatsapp.net"
Digits == {"0", "1", "2", "3", "4", "5", "6", "7", "8", "9"}

\* number.includes("@")
IncludesAt(s) == \E i \in 1..Len(s) : s[i] = "@"

\* jid = number.includes("@") ? number : number + "@s.whatsapp.net"
NormalizeJid(number) ==
  IF IncludesAt(number) THEN number ELSE number \o <<"@", WA_DOMAIN>>

\* mutant: the pattern accepts any local part
MatchesJid_AnyLocal(jid) ==
  /\ Len(jid) >= 3
  /\ jid[Len(jid)] = WA_DOMAIN
  /\ jid[Len(jid) - 1] = "@"

\* jid.match(/^\d+@s\.whatsapp\.net$/)
MatchesJid(jid) ==
  /\ Len(jid) >= 3
  /\ jid[Len(jid)] = WA_DOMAIN
  /\ jid[Len(jid) - 1] = "@"
  /\ \A i \in 1..(Len(jid) - 2) : jid[i] \in Digits

\* const key = `${jid}:${message}`
MessageKey(jid, message) == jid \o <<":">> \o message

\* the request bodies a client sends
Numbers == { <<>>, <<"2", "5">>, <<"2", "5", "@", WA_DOMAIN>>, <<"a", "5">>,
             <<"2", "@", "x">>, <<"@", WA_DOMAIN>> }
Messages == { <<>>, <<"h", "i">>, <<"y", "o">> }

\* the bodies of a client that repeats one message
OneMessage == { <<>>, <<"h", "i">> }

ValidKeys ==
  { MessageKey(NormalizeJid(n), m) :
      <<n, m>> \in { p \in Numbers \X Messages :
                       /\ p[1] # <<>> /\ p[2] # <<>>
                       /\ MatchesJid(NormalizeJid(p[1])) } }

\* Map.get(key), undefined read as 0 (both are falsy)
MapGet(map, key) == IF key \in DOMAIN map THEN map[key] ELSE 0

\* Map.set(key, value)
MapSet(map, key, value) ==
  [k \in DOMAIN map \cup {key} |-> IF k = key THEN value ELSE map[k]]

EmptyMap == [k \in {} |-> 0]

\* --------------------------------------------------------- connection events
LOGGED_OUT == "loggedOut"
StatusCodes == {LOGGED_OUT, "connectionLost", "restartRequired", "undefined"}

\* the update objects the library emits: a QR payload, or a connection state
Updates ==
  {[qr |-> TRUE, connection |-> "none", statusCode |-> "undefined"]}
  \cup {[qr |-> FALSE, connection |-> c, statusCode |-> "undefined"] :
          c \in {"open", "connecting"}}
  \cup {[qr |-> FALSE, connection |-> "close", statusCode |-> s] : s \in StatusCodes}

\* ------------------------------------------------------- connection manager
\* mutant: the logout cause is not told apart
ShouldReconnect_Always(statusCode) == TRUE

\* const shouldReconnect = statusCode !== DisconnectReason.loggedOut
ShouldReconnect(statusCode) == statusCode # LOGGED_OUT

\* mutant: off by one, one reconnect too many
MayRetry_Inclusive(rc) == rc <= MAX_RETRIES

\* retryCount < MAX_RETRIES, the guard of both reconnect paths
MayRetry(rc) == rc < MAX_RETRIES

\* setTimeout(() => startWhatsApp(), RETRY_DELAY)
ScheduleStart(timers) == Append(timers, now + RETRY_DELAY)

\* mutant: a "connecting" update resets the counter as a QR payload does
AfterQr_Connecting(u, rc) == IF u.qr \/ u.connection = "connecting" THEN 0 ELSE rc

\* if (qr) { ...; retryCount = 0 }: the counter after the QR block
AfterQr(u, rc) == IF u.qr THEN 0 ELSE rc

\* the body of the first "connection.update" handler, run on the update u
HandleUpdate(u) ==
  LET rcQr == AfterQr(u, retryCount)
      icQr == IF u.qr THEN FALSE ELSE isConnected
      reconnect == ShouldReconnect(u.statusCode) /\ MayRetry(rcQr)
  IN
  /\ lastCloseCode' = IF u.connection = "close" THEN u.statusCode ELSE lastCloseCode
  /\ IF u.connection = "close"
       THEN /\ isConnected' = FALSE
            /\ IF reconnect
                 THEN /\ retryCount' = rcQr + 1
                      /\ startTimers' = ScheduleStart(startTimers)
                      /\ exhaustedLogged' = exhaustedLogged
                 ELSE /\ retryCount' = rcQr
                      /\ startTimers' = startTimers
                      /\ exhaustedLogged' = (exhaustedLogged \/ rcQr >= MAX_RETRIES)
       ELSE /\ startTimers' = startTimers
            /\ exhaustedLogged' = exhaustedLogged
            /\ IF u.connection = "open"
                 THEN /\ isConnected' = TRUE
                      /\ retryCount' = 0
                 ELSE /\ isConnected' = IF u.connection = "connecting" THEN FALSE
                                        ELSE icQr
                      /\ retryCount' = rcQr
  /\ attemptsSinceOpen' =
       IF u.connection = "open" THEN 0
       ELSE IF u.connection = "close" /\ reconnect THEN attemptsSinceOpen + 1
       ELSE attemptsSinceOpen
  /\ attemptsSinceReset' =
       IF u.connection = "open" THEN 0
       ELSE IF u.connection = "close" /\ reconnect
         THEN (IF u.qr THEN 0 ELSE attemptsSinceReset) + 1
       ELSE IF u.qr THEN 0
       ELSE attemptsSinceReset

\* a socket emits "connection.update"; ends = the socket stops emitting
\* events after this one (only possible for a close)
ConnectionUpdate(u, ends) ==
  /\ exitCode = -1
  /\ sessions > 0
  /\ ends => u.connection = "close"
  /\ sessions' = IF ends THEN sessions - 1 ELSE sessions
  /\ HandleUpdate(u)
  /\ Len(startTimers') <= MaxTimers
  /\ UNCHANGED <<sock, starting, procVars, cacheVars, sendVars, histVars, now>>

\* a reconnect timer fires: startWhatsApp() runs up to its first await
StartTimerFire ==
  /\ exitCode = -1
  /\ startTimers # <<>>
  /\ Head(startTimers) <= now
  /\ starting < MaxStarting
  /\ startTimers' = Tail(startTimers)
  /\ starting' = starting + 1
  /\ UNCHANGED <<sock, isConnected, retryCount, sessions, lastCloseCode,
                 exhaustedLogged, procVars, attemptVars,
                 cacheVars, sendVars, histVars, now>>

\* startWhatsApp: credentials loaded, makeWASocket returned, handlers subscribed
StartOpened ==
  /\ exitCode = -1
  /\ starting > 0
  /\ sessions < MaxSessions
  /\ starting' = starting - 1
  /\ sock' = "handle"
  /\ sessions' = sessions + 1
  /\ UNCHANGED <<isConnected, retryCount, startTimers, lastCloseCode,
                 exhaustedLogged, procVars, attemptVars,
                 cacheVars, sendVars, histVars, now>>

\* mutant: the catch block retries without testing the counter
StartFailed_Unguarded ==
  /\ exitCode = -1
  /\ starting > 0
  /\ Len(startTimers) < MaxTimers
  /\ starting' = starting - 1
  /\ retryCount' = retryCount + 1
  /\ startTimers' = ScheduleStart(startTimers)
  /\ attemptsSinceOpen' = attemptsSinceOpen + 1
  /\ attemptsSinceReset' = attemptsSinceReset + 1
  /\ UNCHANGED <<sock, isConnected, sessions, lastCloseCode, exhaustedLogged,
                 procVars, cacheVars, sendVars, histVars, now>>

\* startWhatsApp: an await or makeWASocket threw; the catch block
StartFailed ==
  /\ exitCode = -1
  /\ starting > 0
  /\ MayRetry(retryCount) => Len(startTimers) < MaxTimers
  /\ starting' = starting - 1
  /\ IF MayRetry(retryCount)
       THEN /\ retryCount' = retryCount + 1
            /\ startTimers' = ScheduleStart(startTimers)
            /\ attemptsSinceOpen' = attemptsSinceOpen + 1
            /\ attemptsSinceReset' = attemptsSinceReset + 1
       ELSE UNCHANGED <<retryCount, startTimers, attemptVars>>
  /\ UNCHANGED <<sock, isConnected, sessions, lastCloseCode, exhaustedLogged,
                 procVars, cacheVars, sendVars, histVars, now>>

\* --------------------------------------------------------------- dedup cache
\* mutant: an entry exactly one window old still blocks
IsBlocking_Inclusive(lastSent, t) ==
  lastSent # 0 /\ t - lastSent <= DUPLICATE_BLOCK_TIME

\* if (lastSent) { if (Date.now() - lastSent < DUPLICATE_BLOCK_TIME) return true }
IsBlocking(lastSent, t) == lastSent # 0 /\ t - lastSent < DUPLICATE_BLOCK_TIME

\* the value isDuplicateMessage(jid, message) returns at time t
isDuplicateMessage(map, jid, message, t) ==
  IsBlocking(MapGet(map, MessageKey(jid, message)), t)

\* mutant: the allowed send is not recorded
RecordOnAllow_NoRecord(map, jid, message, t) == map

\* mutant: every check refreshes the entry (a sliding window)
RecordOnAllow_Sliding(map, jid, message, t) ==
  MapSet(map, MessageKey(jid, message), t)

\* recentMessages after isDuplicateMessage(jid, message) at time t
RecordOnAllow(map, jid, message, t) ==
  IF isDuplicateMessage(map, jid, message, t)
    THEN map
    ELSE MapSet(map, MessageKey(jid, message), t)

\* mutant: the sweep also removes an entry exactly one window old
IsExpired_Inclusive(timestamp, t) == t - timestamp >= DUPLICATE_BLOCK_TIME

\* if (now - timestamp > DUPLICATE_BLOCK_TIME) recentMessages.delete(key)
IsExpired(timestamp, t) == t - timestamp > DUPLICATE_BLOCK_TIME

\* recentMessages after cleanupOldEntries() at time t
cleanupOldEntries(map, t) ==
  [k \in {x \in DOMAIN map : ~IsExpired(map[x], t)} |-> map[k]]

NoHistory == [k \in ValidKeys |-> 0]

\* setInterval(cleanupOldEntries, 30000) fires
Cleanup ==
  /\ exitCode = -1
  /\ cleanupAt <= now
  /\ recentMessages' = cleanupOldEntries(recentMessages, now)
  /\ cleanupAt' = now + CLEANUP_INTERVAL
  /\ UNCHANGED <<clears, clearResp, connVars, sendVars, histVars, now>>

\* mutant: the endpoint only prunes the expired entries
ClearDuplicates_PruneOnly ==
  /\ exitCode = -1
  /\ clears < MaxClears
  /\ clears' = clears + 1
  /\ clearResp' = Cardinality(DOMAIN recentMessages)
  /\ recentMessages' = cleanupOldEntries(recentMessages, now)
  /\ lastCheck' = NoHistory
  /\ lastAllowed' = NoHistory
  /\ UNCHANGED <<cleanupAt, connVars, sendVars, now>>

\* app.delete("/clear-duplicates")
ClearDuplicates ==
  /\ exitCode = -1
  /\ clears < MaxClears
  /\ clears' = clears + 1
  /\ clearResp' = Cardinality(DOMAIN recentMessages)
  /\ recentMessages' = EmptyMap
  /\ lastCheck' = NoHistory
  /\ lastAllowed' = NoHistory
  /\ UNCHANGED <<cleanupAt, connVars, sendVars, now>>

\* -------------------------------------------------------------- send gateway
NoCall == [pc |-> "idle", jid |-> <<>>, message |-> <<>>, messageRetryCount |-> 0,
           wakeAt |-> 0, result |-> "none", dispatched |-> FALSE]

\* the negation of (!isConnected || !sock)
\* mutant: the readiness flag is not consulted
Ready_SocketOnly == sock # "undefined"

\* !(!isConnected || !sock)
Ready == isConnected /\ sock # "undefined"

\* mutant: the send gives up one attempt early
AttemptsExhausted_Early(n) == n >= MAX_SEND_ATTEMPTS - 1

\* messageRetryCount >= 3: the send gives up waiting for the connection
AttemptsExhausted(n) == n >= MAX_SEND_ATTEMPTS

\* messageRetryCount < 2 && error.message?.includes('not connected')
RetriesSendError(n, err) == n < MAX_SEND_ERROR_RETRIES /\ err = "notConnected"

\* mutant: a re-entry keeps the attempt number
NextAttempt_Same(n) == n

\* messageRetryCount + 1, the argument of both recursive calls
NextAttempt(n) == n + 1

\* mutant: the attempt bound is tested before the readiness flag
AttemptCall_ExhaustFirst(cr, n) ==
  IF AttemptsExhausted(n)
    THEN [cr EXCEPT !.pc = "done", !.result = "unavailable",
                    !.messageRetryCount = n, !.wakeAt = 0]
    ELSE IF ~Ready
      THEN [cr EXCEPT !.pc = "waitReady", !.wakeAt = now + RETRY_DELAY,
                      !.messageRetryCount = n]
      ELSE IF isDuplicateMessage(recentMessages, cr.jid, cr.message, now)
        THEN [cr EXCEPT !.pc = "done", !.result = "duplicate",
                        !.messageRetryCount = n, !.wakeAt = 0]
        ELSE [cr EXCEPT !.pc = "sending", !.messageRetryCount = n,
                        !.wakeAt = 0, !.dispatched = TRUE]

\* sendWithRetry(jid, message, n) from its entry to its first await or return:
\* the call's next state
AttemptCall(cr, n) ==
  IF ~Ready
    THEN IF AttemptsExhausted(n)
           THEN [cr EXCEPT !.pc = "done", !.result = "unavailable",
                           !.messageRetryCount = n, !.wakeAt = 0]
           ELSE [cr EXCEPT !.pc = "waitReady", !.wakeAt = now + RETRY_DELAY,
                           !.messageRetryCount = n]
    ELSE IF isDuplicateMessage(recentMessages, cr.jid, cr.message, now)
           THEN [cr EXCEPT !.pc = "done", !.result = "duplicate",
                           !.messageRetryCount = n, !.wakeAt = 0]
           ELSE [cr EXCEPT !.pc = "sending", !.messageRetryCount = n,
                           !.wakeAt = 0, !.dispatched = TRUE]

\* sendWithRetry(jid, message, n) from its entry to its first await or return:
\* its effect on the cache (and on the history of checks and dispatches)
AttemptEffects(cr) ==
  LET key == MessageKey(cr.jid, cr.message)
      dup == isDuplicateMessage(recentMessages, cr.jid, cr.message, now)
  IN
  IF ~Ready
    THEN UNCHANGED <<recentMessages, histVars>>
    ELSE /\ recentMessages' = RecordOnAllow(recentMessages, cr.jid, cr.message, now)
         /\ lastCheck' = [lastCheck EXCEPT ![key] = now]
         /\ lastAllowed' = IF dup THEN lastAllowed
                           ELSE [lastAllowed EXCEPT ![key] = now]

\* app.post("/send"): validation, normalisation, then sendWithRetry(jid, message)
PostSend(c, number, message) ==
  LET jid == NormalizeJid(number) IN
  /\ exitCode = -1
  /\ calls[c].pc = "idle"
  /\ \A d \in 1..(c - 1) : calls[d].pc # "idle"
  /\ IF number = <<>> \/ message = <<>>
       THEN /\ calls' = [calls EXCEPT ![c] = [NoCall EXCEPT !.pc = "done",
                                                !.result = "missing"]]
            /\ UNCHANGED <<recentMessages, histVars>>
       ELSE IF ~MatchesJid(jid)
         THEN /\ calls' = [calls EXCEPT ![c] = [NoCall EXCEPT !.pc = "done",
                                                  !.result = "invalid"]]
              /\ UNCHANGED <<recentMessages, histVars>>
         ELSE LET cr == [NoCall EXCEPT !.jid = jid, !.message = message] IN
              /\ calls' = [calls EXCEPT ![c] = AttemptCall(cr, 0)]
              /\ AttemptEffects(cr)
  /\ UNCHANGED <<cleanupAt, clears, clearResp, connVars, now>>

\* the setTimeout(resolve, RETRY_DELAY) of a waiting send fires:
\* return sendWithRetry(jid, message, messageRetryCount + 1)
RetryWake(c) ==
  /\ exitCode = -1
  /\ calls[c].pc \in {"waitReady", "waitError"}
  /\ calls[c].wakeAt <= now
  /\ calls' = [calls EXCEPT ![c] = AttemptCall(calls[c], NextAttempt(calls[c].messageRetryCount))]
  /\ AttemptEffects(calls[c])
  /\ UNCHANGED <<cleanupAt, clears, clearResp, connVars, now>>

\* await sock.sendMessage(...) resolves
SendResolved(c) ==
  /\ exitCode = -1
  /\ calls[c].pc = "sending"
  /\ calls' = [calls EXCEPT ![c].pc = "done", ![c].result = "sent"]
  /\ UNCHANGED <<cacheVars, connVars, histVars, now>>

\* await sock.sendMessage(...) rejects; the catch block
SendRejected(c, err) ==
  /\ exitCode = -1
  /\ calls[c].pc = "sending"
  /\ calls' = [calls EXCEPT ![c] =
       IF RetriesSendError(calls[c].messageRetryCount, err)
         THEN [@ EXCEPT !.pc = "waitError", !.wakeAt = now + RETRY_DELAY]
         ELSE [@ EXCEPT !.pc = "done",
                        !.result = IF err = "notConnected" THEN "notConnectedError"
                                   ELSE "sendFailure"]]
  /\ UNCHANGED <<cacheVars, connVars, histVars, now>>

\* ---------------------------------------------------------------- shutdown
\* the update a socket emits when the program itself ends it: no error object
EndUpdate == [qr |-> FALSE, connection |-> "close", statusCode |-> "undefined"]

\* process.on('SIGINT') up to process.exit(): recentMessages.clear(), then
\* sock.end() if there is a socket; a socket that is still subscribed may
\* emit its close update from inside end(), one that has closed emits nothing
SigintCleanup ==
  /\ exitCode = -1
  /\ recentMessages' = EmptyMap
  /\ lastCheck' = NoHistory
  /\ lastAllowed' = NoHistory
  /\ IF sock # "undefined"
       THEN /\ sockEnded' = TRUE
            /\ \/ /\ sessions > 0
                  /\ sessions' = sessions - 1
                  /\ HandleUpdate(EndUpdate)
               \/ UNCHANGED <<isConnected, retryCount, startTimers, sessions,
                              lastCloseCode, exhaustedLogged, attemptVars>>
       ELSE UNCHANGED <<sockEnded, isConnected, retryCount, startTimers, sessions,
                        lastCloseCode, exhaustedLogged, attemptVars>>
  /\ UNCHANGED <<sock, starting, cleanupAt, clears, clearResp, sendVars, now>>

\* mutant: the handler returns without ending the process
Sigint_NoExit == SigintCleanup /\ exitCode' = exitCode

\* process.on('SIGINT'): the whole handler, to process.exit()
Sigint == SigintCleanup /\ exitCode' = 0

\* ------------------------------------------------------------------- clock
TimerDue ==
  \/ startTimers # <<>> /\ Head(startTimers) <= now
  \/ cleanupAt <= now
  \/ \E c \in 1..MaxCalls : calls[c].pc \in {"waitReady", "waitError"}
                              /\ calls[c].wakeAt <= now

\* time passes; a timer that is due fires before the clock moves on
Tick(limit) ==
  /\ exitCode = -1
  /\ now + TickStep <= limit
  /\ ~TimerDue
  /\ now' = now + TickStep
  /\ UNCHANGED <<connVars, cacheVars, sendVars, histVars>>

\* ---------------------------------------------------------- specifications
\* the state when app.listen's callback has called startWhatsApp()
Init ==
  /\ sock = "undefined"
  /\ isConnected = FALSE
  /\ retryCount = 0
  /\ startTimers = <<>>
  /\ starting = 1
  /\ sessions = 0
  /\ lastCloseCode = "none"
  /\ exhaustedLogged = FALSE
  /\ sockEnded = FALSE
  /\ exitCode = -1
  /\ attemptsSinceOpen = 0
  /\ attemptsSinceReset = 0
  /\ recentMessages = EmptyMap
  /\ now = StartTime
  /\ cleanupAt = StartTime + CLEANUP_INTERVAL
  /\ calls = [c \in 1..MaxCalls |-> NoCall]
  /\ clears = 0
  /\ clearResp = -1
  /\ lastCheck = NoHistory
  /\ lastAllowed = NoHistory

ConnNext ==
  \/ \E u \in Updates, ends \in BOOLEAN : ConnectionUpdate(u, ends)
  \/ StartTimerFire
  \/ StartOpened
  \/ StartFailed

\* the events of a session that stays up: they flip the readiness flag only
QuietUpdates == {u \in Updates : u.connection # "close"}

Next ==
  \/ \E u \in QuietUpdates : ConnectionUpdate(u, FALSE)
  \/ StartOpened
  \/ Cleanup
  \/ ClearDuplicates
  \/ \E c \in 1..MaxCalls, n \in Numbers, m \in OneMessage : PostSend(c, n, m)
  \/ \E c \in 1..MaxCalls : RetryWake(c)
  \/ \E c \in 1..MaxCalls : SendResolved(c)
  \/ \E c \in 1..MaxCalls, err \in {"notConnected", "other"} : SendRejected(c, err)
  \/ Tick(MaxTime)

Spec == Init /\ [][Next]_vars

\* the clock of the fair send gateway: it stops at MaxLiveTime unless a send
\* is waiting on its timer
LiveLimit ==
  IF \E c \in 1..MaxCalls : calls[c].pc \in {"waitReady", "waitError"}
    THEN now + TickStep
    ELSE MaxLiveTime

NextLive ==
  \/ \E u \in QuietUpdates : ConnectionUpdate(u, FALSE)
  \/ StartOpened
  \/ Cleanup
  \/ ClearDuplicates
  \/ \E c \in 1..MaxLiveCalls, n \in Numbers, m \in OneMessage : PostSend(c, n, m)
  \/ \E c \in 1..MaxCalls : RetryWake(c)
  \/ \E c \in 1..MaxCalls : SendResolved(c)
  \/ \E c \in 1..MaxCalls, err \in {"notConnected", "other"} : SendRejected(c, err)
  \/ Tick(LiveLimit)

\* the send gateway when every timer that is due fires, every dispatch
\* resolves or rejects, and time passes
SendFairness ==
  /\ WF_vars(Tick(LiveLimit))
  /\ WF_vars(Cleanup)
  /\ \A c \in 1..MaxCalls :
       /\ WF_vars(RetryWake(c))
       /\ WF_vars(SendResolved(c) \/ SendRejected(c, "notConnected")
                                  \/ SendRejected(c, "other"))

SpecLive == Init /\ [][NextLive]_vars /\ SendFairness

\* the request handler over every request body, before and after the session
\* is up
NextRequests ==
  \/ \E u \in QuietUpdates : ConnectionUpdate(u, FALSE)
  \/ StartOpened
  \/ \E c \in 1..MaxCalls, n \in Numbers, m \in Messages : PostSend(c, n, m)
  \/ \E c \in 1..MaxCalls : RetryWake(c)
  \/ \E c \in 1..MaxCalls : SendResolved(c)
  \/ \E c \in 1..MaxCalls, err \in {"notConnected", "other"} : SendRejected(c, err)
  \/ Tick(MaxRequestTime)

SpecRequests == Init /\ [][NextRequests]_vars

\* the dedup cache under several fingerprints, the session being up
InitCache ==
  /\ sock = "handle"
  /\ isConnected = TRUE
  /\ retryCount = 0
  /\ startTimers = <<>>
  /\ starting = 0
  /\ sessions = 1
  /\ lastCloseCode = "none"
  /\ exhaustedLogged = FALSE
  /\ sockEnded = FALSE
  /\ exitCode = -1
  /\ attemptsSinceOpen = 0
  /\ attemptsSinceReset = 0
  /\ recentMessages = EmptyMap
  /\ now = StartTime
  /\ cleanupAt = StartTime + CLEANUP_INTERVAL
  /\ calls = [c \in 1..MaxCalls |-> NoCall]
  /\ clears = 0
  /\ clearResp = -1
  /\ lastCheck = NoHistory
  /\ lastAllowed = NoHistory

NextCache ==
  \/ Cleanup
  \/ ClearDuplicates
  \/ \E c \in 1..MaxCalls, n \in Numbers, m \in Messages : PostSend(c, n, m)
  \/ \E c \in 1..MaxCalls : RetryWake(c)
  \/ \E c \in 1..MaxCalls : SendResolved(c)
  \/ \E c \in 1..MaxCalls, err \in {"notConnected", "other"} : SendRejected(c, err)
  \/ Tick(MaxTime)

SpecCache == InitCache /\ [][NextCache]_vars

\* the connection manager alone, over a longer time
NextConn ==
  \/ ConnNext
  \/ Cleanup
  \/ Tick(MaxConnTime)

SpecConn == Init /\ [][NextConn]_vars

\* the connection manager over sockets that emit close once, as their last
\* update
NextConnOnce ==
  \/ \E u \in Updates : ConnectionUpdate(u, u.connection = "close")
  \/ StartTimerFire
  \/ StartOpened
  \/ StartFailed
  \/ Cleanup
  \/ Tick(MaxConnTime)

SpecConnOnce == Init /\ [][NextConnOnce]_vars

\* the process from start to SIGINT: reconnects and sends are under way when
\* the signal arrives
NextExit ==
  \/ ConnNext
  \/ \E c \in 1..MaxExitCalls, n \in Numbers, m \in OneMessage : PostSend(c, n, m)
  \/ \E c \in 1..MaxCalls : RetryWake(c)
  \/ \E c \in 1..MaxCalls : SendResolved(c)
  \/ \E c \in 1..MaxCalls, err \in {"notConnected", "other"} : SendRejected(c, err)
  \/ Sigint
  \/ Tick(MaxExitTime)

SpecExit == Init /\ [][NextExit]_vars

\* =================================================================== claims
CallIds == 1..MaxCalls

\* the call sits at a place from which sendWithRetry is (re-)entered
AtEntry(c) == calls[c].pc \in {"idle", "waitReady", "waitError"}

\* in this step call c enters sendWithRetry with a validated request while the
\* session is ready, so it reaches the dedup check
CheckStep(c) ==
  /\ AtEntry(c)
  /\ calls'[c] # calls[c]
  /\ isConnected /\ sock = "handle"
  /\ calls'[c].result \notin {"missing", "invalid"}

\* in this step call c calls sock.sendMessage
DispatchStep(c) == calls[c].pc # "sending" /\ calls'[c].pc = "sending"

\* in this step sendWithRetry returns { success: true, duplicate: true } to call c
SuppressedStep(c) ==
  /\ calls[c].pc # "done"
  /\ calls'[c].pc = "done"
  /\ calls'[c].result = "duplicate"

KeyOf(cr) == MessageKey(cr.jid, cr.message)

\* C1 as stated: whenever a send reaches the dedup check less than the cooldown
\* window after an earlier check of the same fingerprint (by any send, no
\* cache clear in between), it returns duplicate = true and makes no dispatch.
C1_AnyTwoChecks ==
  [][\A c \in CallIds :
       (/\ CheckStep(c)
        /\ lastCheck[KeyOf(calls'[c])] # 0
        /\ now - lastCheck[KeyOf(calls'[c])] < DUPLICATE_BLOCK_TIME)
       => (SuppressedStep(c) /\ ~DispatchStep(c))]_vars

\* C1 amended: whenever a send reaches the dedup check less than the cooldown
\* window after an earlier send of the same fingerprint was let through (not
\* suppressed; no cache clear in between), it returns duplicate = true and
\* makes no dispatch, so the earlier send's dispatch is the only one for that
\* fingerprint in the window; and a send is dispatched exactly when its check
\* lets it through.
C1_SuppressedAfterAllowed ==
  [][\A c \in CallIds :
       /\ (/\ CheckStep(c)
           /\ lastAllowed[KeyOf(calls'[c])] # 0
           /\ now - lastAllowed[KeyOf(calls'[c])] < DUPLICATE_BLOCK_TIME)
          => (SuppressedStep(c) /\ ~DispatchStep(c))
       /\ CheckStep(c) => (DispatchStep(c) <=> ~SuppressedStep(c))
       /\ DispatchStep(c) => CheckStep(c)]_vars

\* two sends of one fingerprint, no clear: the first dispatched, the second was
\* suppressed inside the first one's window
C1_Witness ==
  \E c \in CallIds, d \in CallIds :
    /\ c # d
    /\ calls[c].dispatched
    /\ calls[d].result = "duplicate" /\ ~calls[d].dispatched
    /\ KeyOf(calls[c]) = KeyOf(calls[d])
    /\ clears = 0
    /\ lastCheck[KeyOf(calls[d])] - lastAllowed[KeyOf(calls[d])] \in
         1..(DUPLICATE_BLOCK_TIME - 1)

\* C2: a send that reaches the dedup check while ready, when the fingerprint
\* was last let through at least one cooldown window ago (the entry may or may
\* not have been pruned since), is not suppressed: it is dispatched, the entry
\* becomes the current time, and the dispatch never resolves into
\* duplicate = true.
C2_WindowExpiry ==
  [][\A c \in CallIds :
       /\ (/\ CheckStep(c)
           /\ lastAllowed[KeyOf(calls'[c])] # 0
           /\ now - lastAllowed[KeyOf(calls'[c])] >= DUPLICATE_BLOCK_TIME)
          => /\ DispatchStep(c)
             /\ calls'[c].result = "none"
             /\ KeyOf(calls'[c]) \in DOMAIN recentMessages'
             /\ recentMessages'[KeyOf(calls'[c])] = now
       /\ (calls[c].pc = "sending" /\ calls'[c].pc = "done")
          => calls'[c].result # "duplicate"]_vars

\* a fingerprint dispatched by one send is dispatched again by another send
\* with no clear in between, one cooldown window or more later
C2_Witness ==
  \E c \in CallIds, d \in CallIds :
    /\ c # d
    /\ calls[c].result = "sent"
    /\ calls[d].result = "sent" /\ calls[d].messageRetryCount = 0
    /\ KeyOf(calls[c]) = KeyOf(calls[d])
    /\ clears = 0
    /\ recentMessages[KeyOf(calls[d])] >= StartTime + DUPLICATE_BLOCK_TIME

\* a send that has not met a ready session: nothing dispatched, not suppressed
NeverSawReady(c) ==
  /\ calls[c].pc # "idle"
  /\ calls[c].result \notin {"missing", "invalid", "duplicate"}
  /\ ~calls[c].dispatched

\* C3: a send that never observes readiness is waiting for its first, second
\* or third RETRY_DELAY timer, or has failed with "WhatsApp not connected after
\* 3 attempts" after exactly three waits; each wait lasts RETRY_DELAY; the send
\* makes no dispatch and its steps leave the dedup cache unchanged.
C3_NotReadyFails ==
  /\ [](\A c \in CallIds :
          NeverSawReady(c) =>
            \/ /\ calls[c].pc = "waitReady"
               /\ calls[c].messageRetryCount \in 0..(MAX_SEND_ATTEMPTS - 1)
               /\ calls[c].result = "none"
            \/ /\ calls[c].pc = "done"
               /\ calls[c].result = "unavailable"
               /\ calls[c].messageRetryCount = MAX_SEND_ATTEMPTS)
  /\ [][\A c \in CallIds :
          /\ (calls'[c] # calls[c] /\ calls'[c].pc = "waitReady")
             => calls'[c].wakeAt = now + RETRY_DELAY
          /\ (calls'[c] # calls[c] /\ calls[c].pc = "waitReady")
             => /\ now >= calls[c].wakeAt
                /\ calls'[c].messageRetryCount = calls[c].messageRetryCount + 1
          /\ (calls'[c] # calls[c] /\ AtEntry(c) /\ ~(isConnected /\ sock = "handle"))
             => /\ recentMessages' = recentMessages
                /\ ~DispatchStep(c)
                /\ calls'[c].result \in {"none", "unavailable", "missing", "invalid"}
      ]_vars

\* a send has failed with ConnectionUnavailable without ever dispatching
C3_Witness ==
  \E c \in CallIds :
    /\ calls[c].result = "unavailable"
    /\ ~calls[c].dispatched
    /\ calls[c].messageRetryCount = MAX_SEND_ATTEMPTS
    /\ now >= StartTime + MAX_SEND_ATTEMPTS * RETRY_DELAY

\* C4: when the timer of a send that waits for readiness fires and the session
\* is ready at that check, the send goes on to the dedup check in the same
\* step: it returns success with duplicate = true, or it is dispatched; it
\* does not fail with ConnectionUnavailable there, also at the third check, and
\* a dispatch that resolves returns success with duplicate = false.
C4_ReadyMidRetry ==
  [][\A c \in CallIds :
       /\ (/\ calls[c].pc = "waitReady"
           /\ calls'[c] # calls[c]
           /\ isConnected /\ sock = "handle")
          => \/ SuppressedStep(c)
             \/ /\ DispatchStep(c)
                /\ calls'[c].result = "none"
       /\ (calls[c].pc = "sending" /\ calls'[c].pc = "done")
          => calls'[c].result \in {"sent", "notConnectedError", "sendFailure"}
       /\ calls'[c].result = "sent" => calls[c].pc \in {"sending", "done"}]_vars

\* a send waited three times for the connection, found it ready at its last
\* check and was delivered
C4_Witness ==
  \E c \in CallIds :
    /\ calls[c].result = "sent"
    /\ calls[c].messageRetryCount = MAX_SEND_ATTEMPTS
    /\ clears = 0
    /\ recentMessages[KeyOf(calls[c])] = StartTime + MAX_SEND_ATTEMPTS * RETRY_DELAY

\* C5: a close event with a non-terminal cause increments retryCount and
\* schedules one startWhatsApp() after RETRY_DELAY while retryCount is below
\* MAX_RETRIES; at MAX_RETRIES it schedules nothing, leaves retryCount alone
\* and prints "Max reconnection attempts reached".
C5_ReconnectBound ==
  [][\A u \in Updates, ends \in BOOLEAN :
       (/\ ConnectionUpdate(u, ends)
        /\ u.connection = "close"
        /\ u.statusCode # LOGGED_OUT)
       => IF retryCount < MAX_RETRIES
            THEN /\ retryCount' = retryCount + 1
                 /\ startTimers' = Append(startTimers, now + RETRY_DELAY)
                 /\ exhaustedLogged' = exhaustedLogged
            ELSE /\ retryCount' = retryCount
                 /\ startTimers' = startTimers
                 /\ exhaustedLogged'
     ]_vars

\* ten reconnects were scheduled in a row, all timers have fired, and a
\* further non-terminal close has surfaced the exhaustion
C5_Witness ==
  /\ retryCount = MAX_RETRIES
  /\ exhaustedLogged
  /\ lastCloseCode \notin {"none", LOGGED_OUT}
  /\ startTimers = <<>>
  /\ starting = 0

\* C6: a close event whose statusCode is DisconnectReason.loggedOut sets
\* isConnected to false, schedules no startWhatsApp() and leaves retryCount
\* unchanged, whatever retryCount is.
C6_LoggedOutNoReconnect ==
  [][\A u \in Updates, ends \in BOOLEAN :
       (/\ ConnectionUpdate(u, ends)
        /\ u.connection = "close"
        /\ u.statusCode = LOGGED_OUT)
       => /\ isConnected' = FALSE
          /\ startTimers' = startTimers
          /\ starting' = starting
          /\ retryCount' = retryCount
     ]_vars

\* the last close was a logout that arrived with retries left: nothing is
\* scheduled or starting, and retryCount stands where it was
C6_Witness ==
  /\ lastCloseCode = LOGGED_OUT
  /\ ~isConnected
  /\ retryCount \in 1..(MAX_RETRIES - 1)
  /\ startTimers = <<>>
  /\ starting = 0

\* C7 as stated: when the timer set after a "not connected" send error fires
\* and the session is ready, the message is dispatched once more.
C7_RetryDispatches ==
  [][\A c \in CallIds :
       (/\ calls[c].pc = "waitError"
        /\ calls'[c] # calls[c]
        /\ isConnected /\ sock = "handle")
       => DispatchStep(c)]_vars

\* C8: a dedup check of a fingerprint that has an entry younger than the
\* cooldown returns true and leaves the whole cache unchanged; any other check
\* returns false and sets that fingerprint's entry to the current time, every
\* other entry unchanged.
C8_RecordOnAllow ==
  [][\A c \in CallIds :
       CheckStep(c) =>
         LET key == calls'[c].jid \o <<":">> \o calls'[c].message IN
         IF key \in DOMAIN recentMessages
              /\ now - recentMessages[key] < DUPLICATE_BLOCK_TIME
           THEN /\ SuppressedStep(c)
                /\ recentMessages' = recentMessages
           ELSE /\ ~SuppressedStep(c)
                /\ DOMAIN recentMessages' = DOMAIN recentMessages \cup {key}
                /\ recentMessages'[key] = now
                /\ \A k \in DOMAIN recentMessages \ {key} :
                     recentMessages'[k] = recentMessages[k]]_vars

\* a send was suppressed after the entry was written and the entry still has
\* its old timestamp, next to an entry of another fingerprint
C8_Witness ==
  \E k \in DOMAIN recentMessages :
    /\ lastCheck[k] > recentMessages[k]
    /\ lastAllowed[k] = recentMessages[k]
    /\ \E j \in DOMAIN recentMessages : j # k
    /\ \E c \in CallIds : calls[c].result = "duplicate" /\ KeyOf(calls[c]) = k

\* C9: a sweep removes exactly the entries older than the cooldown window: the
\* entries of age <= DUPLICATE_BLOCK_TIME, the blocking ones among them, stay
\* with their timestamps, and no entry older than the window is left.
C9_Prune ==
  [][cleanupAt' # cleanupAt =>
       /\ DOMAIN recentMessages' =
            {k \in DOMAIN recentMessages :
               now - recentMessages[k] <= DUPLICATE_BLOCK_TIME}
       /\ \A k \in DOMAIN recentMessages' : recentMessages'[k] = recentMessages[k]
       /\ \A k \in DOMAIN recentMessages :
            now - recentMessages[k] < DUPLICATE_BLOCK_TIME
              => k \in DOMAIN recentMessages']_vars

\* a sweep has run: it removed a fingerprint sent once more than a cooldown
\* window before, and kept a blocking one
C9_Witness ==
  /\ cleanupAt > StartTime + CLEANUP_INTERVAL
  /\ now + CLEANUP_INTERVAL = cleanupAt
  /\ clears = 0
  /\ \E k \in ValidKeys :
       /\ lastAllowed[k] # 0
       /\ now - lastAllowed[k] > DUPLICATE_BLOCK_TIME
       /\ k \notin DOMAIN recentMessages
  /\ \E k \in DOMAIN recentMessages :
       now - recentMessages[k] \in 1..(DUPLICATE_BLOCK_TIME - 1)

\* C10: DELETE /clear-duplicates empties the cache and answers with the number
\* of entries it held; the first send of a fingerprint to reach the dedup
\* check after a clear is dispatched, not suppressed, whatever the cache held
\* for it before the clear.
C10_Clear ==
  [][/\ clears' # clears =>
          /\ recentMessages' = EmptyMap
          /\ clearResp' = Cardinality(DOMAIN recentMessages)
     /\ \A c \in CallIds :
          (/\ CheckStep(c)
           /\ clears > 0
           /\ lastAllowed[KeyOf(calls'[c])] = 0)
          => /\ DispatchStep(c)
             /\ calls'[c].result = "none"]_vars

\* a fingerprint was sent, the cache holding it was cleared inside its window,
\* and a second send of it inside that window was dispatched and delivered
C10_Witness ==
  \E c \in CallIds, d \in CallIds :
    /\ c # d
    /\ calls[c].dispatched
    /\ calls[d].result = "sent" /\ calls[d].messageRetryCount = 0
    /\ KeyOf(calls[c]) = KeyOf(calls[d])
    /\ clears = 1
    /\ clearResp >= 1
    /\ now < StartTime + DUPLICATE_BLOCK_TIME
\* ------------------------------------------------------------------ C11
\* a number a client may send: digits, alone or followed by @s.whatsapp.net
WellFormedNumber(n) ==
  \E k \in 1..Len(n) :
    /\ \A i \in 1..k : n[i] \in Digits
    /\ \/ Len(n) = k
       \/ Len(n) = k + 2 /\ n[k + 1] = "@" /\ n[k + 2] = WA_DOMAIN

\* the request bodies the claim is about: an empty field, or a number that is
\* not well formed
RejectedBodies ==
  { p \in Numbers \X Messages :
      p[1] = <<>> \/ p[2] = <<>> \/ ~WellFormedNumber(p[1]) }

\* C11: a POST /send whose number or message is empty, or whose number is not
\* digits (alone or before @s.whatsapp.net), is answered in the step that
\* receives it with the 400 result: the call never waits and never dispatches,
\* and the cache, the session state and the clock are as they were.
C11_ValidationRejects ==
  [][\A c \in CallIds :
       (calls[c].pc = "idle" /\ calls'[c].pc # "idle")
       => \A p \in RejectedBodies :
            PostSend(c, p[1], p[2])
            => /\ calls'[c].pc = "done"
               /\ calls'[c].result \in {"missing", "invalid"}
               /\ calls'[c].result = "missing" <=> (p[1] = <<>> \/ p[2] = <<>>)
               /\ ~calls'[c].dispatched
               /\ calls'[c].messageRetryCount = 0
               /\ calls'[c].wakeAt = 0
               /\ recentMessages' = recentMessages
               /\ connVars' = connVars
               /\ now' = now
    ]_vars

\* both kinds of rejected request have been answered while the session was
\* not ready: neither waited for it
C11_Witness ==
  \E c \in CallIds, d \in CallIds :
    /\ calls[c].result = "invalid"
    /\ calls[d].result = "missing"
    /\ ~Ready

\* ------------------------------------------------------------------ C12
\* C12: the SIGINT handler is one step that leaves the cache empty, has
\* called sock.end() exactly when there was a socket, and ends the process
\* with exit code 0; the handler starts no startWhatsApp() and no send, and
\* an exited process takes no step at all (no timer fires, no send resumes).
C12_Shutdown ==
  [][/\ exitCode = -1
     /\ Sigint => /\ exitCode' = 0
                  /\ recentMessages' = EmptyMap
                  /\ sockEnded' = (sock # "undefined")
                  /\ starting' = starting
                  /\ calls' = calls
    ]_vars

\* the process has exited with a socket ended, a reconnect timer still set
\* and a send still suspended: neither runs any more
C12_Witness ==
  /\ exitCode = 0
  /\ sockEnded
  /\ startTimers # <<>>
  /\ \E c \in CallIds : calls[c].pc \in {"sending", "waitReady", "waitError"}

\* ------------------------------------------------------------------ C13
\* C13: every step that calls sock.sendMessage starts from a state in which
\* isConnected is true and sock is set, and the same step has made the dedup
\* check: it found no blocking entry and recorded the fingerprint at the
\* current time, so nothing runs between the checks and the dispatch.
C13_DispatchWhenReady ==
  [][\A c \in CallIds :
       DispatchStep(c)
       => LET key == KeyOf(calls'[c])
              lastSent == MapGet(recentMessages, key)
          IN
          /\ isConnected
          /\ sock = "handle"
          /\ AtEntry(c)
          /\ lastSent = 0 \/ now - lastSent >= DUPLICATE_BLOCK_TIME
          /\ MapGet(recentMessages', key) = now
          /\ lastCheck'[key] = now
          /\ now' = now
          /\ connVars' = connVars
    ]_vars

\* a dispatch is in flight and the session has stopped being ready since:
\* the flag was read when the dispatch started, not later
C13_Witness ==
  \E c \in CallIds :
    /\ calls[c].pc = "sending"
    /\ calls[c].messageRetryCount > 0
    /\ ~isConnected

\* ------------------------------------------------------------------ C14
\* C14: in every reachable state at most one startWhatsApp() is pending (its
\* timer set) or in progress (suspended at an await), and at most one socket
\* is subscribed; this also when a socket emits close more than once or a
\* start fails and is retried.
C14_Serialized ==
  /\ Len(startTimers) + starting <= 1
  /\ sessions <= 1

\* ------------------------------------------------------------------ C15
\* C15: a startWhatsApp() that throws is handled as a close with a non-logout
\* cause is: isConnected becomes false; below MAX_RETRIES the counter is
\* incremented and a start is set RETRY_DELAY ahead; at MAX_RETRIES nothing is
\* set and "Max reconnection attempts reached" is reported.
C15_FailureLikeClose ==
  [][StartFailed
     => /\ isConnected' = FALSE
        /\ IF retryCount < MAX_RETRIES
             THEN /\ retryCount' = retryCount + 1
                  /\ startTimers' = Append(startTimers, now + RETRY_DELAY)
             ELSE /\ retryCount' = retryCount
                  /\ startTimers' = startTimers
                  /\ exhaustedLogged'
    ]_vars

\* ------------------------------------------------------------------ C16
\* C16: once a close update has arrived with retryCount >= MAX_RETRIES (the
\* exhaustion message is printed at exactly those), no startWhatsApp() is
\* invoked any more and isConnected is false in every later state.
C16_ExhaustionPermanent ==
  [][exhaustedLogged => /\ starting' <= starting
                        /\ isConnected' = FALSE
    ]_vars

\* ------------------------------------------------------------------ C17
\* C17: every sendWithRetry call ends: its attempt number never exceeds 3,
\* every re-entry after a wait (not ready, or send error) raises it by exactly
\* one and nothing else changes it, and a call that has started reaches its
\* result or error when timers fire and every dispatch resolves or rejects.
C17_Terminates ==
  /\ [](\A c \in CallIds : calls[c].messageRetryCount \in 0..MAX_SEND_ATTEMPTS)
  /\ [][\A c \in CallIds :
          /\ (calls[c].pc \in {"waitReady", "waitError"} /\ calls'[c] # calls[c])
             => calls'[c].messageRetryCount = calls[c].messageRetryCount + 1
          /\ (calls[c].pc \in {"sending", "done"})
             => calls'[c].messageRetryCount = calls[c].messageRetryCount
       ]_vars
  /\ \A c \in CallIds :
       (calls[c].pc # "idle") ~> (calls[c].pc = "done")

\* a call has ended after the most re-entries a call can make, one of them
\* after a send error
C17_Witness ==
  \E c \in CallIds :
    /\ calls[c].pc = "done"
    /\ calls[c].messageRetryCount = MAX_SEND_ATTEMPTS
    /\ calls[c].dispatched

\* ------------------------------------------------------------------ C18
\* C18 as stated: the startWhatsApp() timers set since the last open update
\* never number more than MAX_RETRIES, and retryCount goes back to 0 only on
\* an open update.
C18_AttemptsSinceOpen ==
  /\ [](attemptsSinceOpen <= MAX_RETRIES)
  /\ [][(retryCount # 0 /\ retryCount' = 0)
        => \E u \in Updates, ends \in BOOLEAN :
             ConnectionUpdate(u, ends) /\ u.connection = "open"
       ]_vars

\* C18 amended: the startWhatsApp() timers set since the last open update or
\* QR payload never number more than MAX_RETRIES, whatever "connecting"
\* updates arrive in between, and retryCount goes back to 0 only on an open
\* update or a QR payload.
C18_AttemptsSinceReset ==
  /\ [](attemptsSinceReset <= MAX_RETRIES)
  /\ [][(retryCount # 0 /\ retryCount' = 0)
        => \E u \in Updates, ends \in BOOLEAN :
             ConnectionUpdate(u, ends) /\ (u.connection = "open" \/ u.qr)
       ]_vars

\* MAX_RETRIES reconnects have been made since a QR payload, which itself
\* came after earlier reconnects, with no open update in between
C18_Witness ==
  /\ attemptsSinceReset = MAX_RETRIES
  /\ attemptsSinceOpen > MAX_RETRIES

\* ------------------------------------------------------------------ C19
\* C19: a success result is backed by a delivery. A dispatched send that
\* resolved is its own delivery; for a call answered "duplicate" some call
\* with the same fingerprint has a dispatch that resolved, or (read in the
\* claim's favour) one still in flight or waiting to be retried. A
\* fingerprint whose only dispatches failed must not produce a "duplicate"
\* answer.
C19_SuccessIsDelivered ==
  \A b \in CallIds :
    calls[b].result = "duplicate"
    => \E a \in CallIds :
         /\ KeyOf(calls[a]) = KeyOf(calls[b])
         /\ calls[a].dispatched
         /\ calls[a].result = "sent" \/ calls[a].pc \in {"sending", "waitError"}

\* ------------------------------------------------------------------ C20
\* C20: retryCount is always within 0..MAX_RETRIES; a step that changes it
\* either sets it to 0 or adds one to a value below MAX_RETRIES, and the catch
\* block of startWhatsApp adds one exactly when the value is below
\* MAX_RETRIES, as the close handler does.
C20_RetryCountRange ==
  /\ [](retryCount \in 0..MAX_RETRIES)
  /\ [][/\ (retryCount' # retryCount)
           => \/ retryCount' = 0
              \/ retryCount' = retryCount + 1 /\ retryCount < MAX_RETRIES
        /\ StartFailed
           => retryCount' = IF retryCount < MAX_RETRIES THEN retryCount + 1
                            ELSE retryCount
       ]_vars

\* the counter stands at MAX_RETRIES and no socket was ever created: every
\* increment was made by the catch block
C20_Witness ==
  /\ retryCount = MAX_RETRIES
  /\ sock = "undefined"
  /\ starting = 0
  /\ startTimers = <<>>

====
